---- MODULE Spec2Model ----
(***************************************************************************)
(* A model of fetch.go (package fetch of horizon-pkg-fetch): PkgFetch      *)
(* fetches a manifest, prechecks it, and fans out one goroutine per part   *)
(* that downloads the part (fetchPkgPart), records the outcome under a     *)
(* mutex (addResult) and, if the error map is empty, verifies the part     *)
(* (verifyPkgPart).  The results are joined by a WaitGroup.                *)
(*                                                                         *)
(* Bytes are modelled by their provenance: a byte of the body served by    *)
(* the i-th source of a part is the number i, a byte of a file left by an  *)
(* earlier run is 0.  A body is then decided by its source and its length. *)
(***************************************************************************)
EXTENDS Integers, Sequences, FiniteSets, TLC

\* ------------------------------------------------------------------ bounds
NumParts == 2
NumSources == 2
ExpectedBytes == 2
MaxRuns == 2

\* ------------------------------------------------------------------ inputs
Names == <<"A", "B", "C", "D">>
PartNames == {Names[i] : i \in 1..NumParts}
MaxLen == ExpectedBytes + 1
DestinationDir == "dest"
PkgID == "pkg"

Rep(b, n) == [j \in 1..n |-> b]

\* a file system entry: absent, or a regular file with its content
NoFile == [exists |-> FALSE, data |-> <<>>]
File(d) == [exists |-> TRUE, data |-> d]
Size(e) == Len(e.data)
\* what an earlier run may have left at a part's path (its bytes are 0)
PriorEntries == {NoFile} \cup {File(Rep(0, n)) : n \in 0..MaxLen}

\* a decoded manifest: the declared parts and the keys of Meta.Provides.Images
\* (every part has its metadata, or one part lacks it)
Manifests ==
  UNION {{[Parts |-> P, Images |-> I] : I \in {P} \cup {P \ {n} : n \in P}} :
         P \in SUBSET PartNames}
NoPkg == [Parts |-> {}, Images |-> {}]

\* the response to the manifest GET: a request error, or a status and a body
\* that json.Unmarshal decodes or not
StatusOK == 200
MetaResponses ==
  {[err |-> TRUE, status |-> 0, decodes |-> FALSE, pkg |-> NoPkg],
   [err |-> FALSE, status |-> 500, decodes |-> FALSE, pkg |-> NoPkg],
   [err |-> FALSE, status |-> StatusOK, decodes |-> FALSE, pkg |-> NoPkg]}
  \cup {[err |-> FALSE, status |-> StatusOK, decodes |-> TRUE, pkg |-> m] : m \in Manifests}
\* the manifest file of an earlier run
OldManifest == [decodes |-> FALSE, pkg |-> NoPkg]

\* the response of a part source: a request error, or a status and a body of
\* len bytes of which io.Copy writes copied bytes (all of them, or fewer and an
\* error)
PartResponses ==
  {[err |-> TRUE, status |-> 0, len |-> 0, copied |-> 0],
   [err |-> FALSE, status |-> 500, len |-> 0, copied |-> 0]}
  \cup UNION {{[err |-> FALSE, status |-> StatusOK, len |-> n, copied |-> c] :
                 c \in 0..n} : n \in 0..MaxLen}

\* ------------------------------------------------------------------ paths
\* path.Join(destinationDir, name), fetch.go line 227
partPath(name) == <<DestinationDir, name>>
\* path.Join(destinationDir, pkg.ID), fetch.go line 268
pkgDirPath == <<DestinationDir, PkgID>>
\* path.Join(destinationDir, pkg.ID + ".json"), fetch.go lines 19, 50
manifestPath == <<DestinationDir, "pkg.json">>

VARIABLES
  pcMain,      \* position of PkgFetch
  run,         \* number of the current invocation of PkgFetch
  pkg,         \* the decoded manifest (fetchPkgMeta's result)
  manifest,    \* the file <destinationDir>/<pkg.ID>.json
  pkgDir,      \* whether <destinationDir>/<pkg.ID> exists
  files,       \* the part files, by path
  pc,          \* position of each part's goroutine
  stage,       \* which addResult call a goroutine is at: "fetch" or "verify"
  partFile,    \* fetchPkgPart's partFile: "nil" or "open"
  src,         \* number of sources fetchPkgPart has requested
  okSrc,       \* the source whose body was byte-exact (0: none)
  discarded,   \* whether a wrong-size body was removed and the file reopened
  failed,      \* number of sources that failed with a request error or a status
  result,      \* the error a goroutine is about to hand to addResult
  dlErr,       \* the error fetchPkgPart returned, per part ("none" before)
  verified,    \* whether verifyPkgPart was called for the part
  Errors,      \* fetchErrs.Errors: part name -> error, "absent" if no key
  fetched,     \* the slice fetched
  WriteLock,   \* holder of fetchErrs.WriteLock, "free" if none
  ret,         \* what PkgFetch returned
  prev         \* the manifest and what the previous invocation returned

vars == <<pcMain, run, pkg, manifest, pkgDir, files, pc, stage, partFile,
          src, okSrc, discarded, failed, result, dlErr, verified, Errors,
          fetched, WriteLock, ret, prev>>

NoErrors == [n \in PartNames |-> "absent"]
NoRet == [err |-> "none", errors |-> NoErrors, paths |-> <<>>]

\* ------------------------------------------------------------ pure helpers
\* len(fetchErrs.Errors)
LenErrors(errs) == Cardinality({n \in PartNames : errs[n] # "absent"})

\* a write of body at offset 0 of a file opened without O_TRUNC (line 99):
\* the bytes beyond the body stay
writeAt(data, body) == body \o SubSeq(data, Len(body) + 1, Len(data))

\* os.OpenFile(partPath, os.O_RDWR|os.O_CREATE, 0600), line 99: creates an empty
\* file if there is none and leaves an existing one as it is
tryOpen(entry) == IF entry.exists THEN entry ELSE File(<<>>)

\* the errors tryOpen can return: the flags have no O_EXCL, so never EEXIST
OpenErrs == {"nil", "EACCES"}
\* os.IsExist(openErr), line 118
IsExist(openErr) == openErr = "EEXIST"

\* a write that keeps a file that is already there
writeFile_Keep(old, content) ==
  IF old.exists THEN old ELSE [exists |-> TRUE, body |-> content]

\* writeFile, lines 18-26 (ioutil.WriteFile): creates the file or overwrites it
writeFile(old, content) == [exists |-> TRUE, body |-> content]

\* a precheck that accepts every manifest
precheckPkgParts_Skip(p) == TRUE

\* precheckPkgParts, lines 62-73: TRUE for a nil error
precheckPkgParts(p) == \A n \in p.Parts : n \in p.Images

\* verifyPkgPart, lines 180-190: always a VerificationError, the file untouched
verifyPkgPart(path, entry) == [err |-> "VerificationError", entry |-> entry]

\* the errors filepath.Abs can return (os.Getwd fails on a relative path)
AbsErrs == {"nil", "AbsErr"}

\* an addResult that keeps only the first failure
addResultErrors_FirstOnly(errs, id, err, path, absErr) ==
  IF err # "nil"
    THEN IF \E m \in PartNames : errs[m] \notin {"absent", "nil"}
           THEN errs
           ELSE [errs EXCEPT ![id] = err]
  ELSE IF path # <<>> THEN [errs EXCEPT ![id] = absErr]
  ELSE errs

\* an addResult that does not record download failures
addResultErrors_DropFailures(errs, id, err, path, absErr) ==
  IF err # "nil" THEN errs
  ELSE IF path # <<>> THEN [errs EXCEPT ![id] = absErr]
  ELSE errs

\* addResult's effect on fetchErrs.Errors, lines 200-213
addResultErrors(errs, id, err, path, absErr) ==
  IF err # "nil" THEN [errs EXCEPT ![id] = err]
  ELSE IF path # <<>> THEN [errs EXCEPT ![id] = absErr]
  ELSE errs

\* addResult's effect on fetched, lines 205-211: appends when filepath.Abs FAILED,
\* and then abs is the empty path
addResultFetched(list, err, path, absErr) ==
  IF err = "nil" /\ path # <<>> /\ absErr # "nil" THEN Append(list, <<>>) ELSE list

\* a wait that ends when the first goroutine is done
allJoined_Any(pcs, parts) == parts = {} \/ \E n \in parts : pcs[n] = "done"

\* group.Wait(), line 243: every launched goroutine has called group.Done
allJoined(pcs, parts) == \A n \in parts : pcs[n] = "done"

\* lines 245-249
fetchAndVerifyResult(errs, list) ==
  IF LenErrors(errs) > 0
    THEN [err |-> "Error fetching parts", errors |-> errs, paths |-> <<>>]
    ELSE [err |-> "nil", errors |-> NoErrors, paths |-> list]

\* ------------------------------------------------------------------- Init
PartPaths == {partPath(n) : n \in PartNames}

TaskInit ==
  /\ pc = [n \in PartNames |-> "idle"]
  /\ stage = [n \in PartNames |-> "fetch"]
  /\ partFile = [n \in PartNames |-> "nil"]
  /\ src = [n \in PartNames |-> 0]
  /\ okSrc = [n \in PartNames |-> 0]
  /\ discarded = [n \in PartNames |-> FALSE]
  /\ failed = [n \in PartNames |-> 0]
  /\ result = [n \in PartNames |-> "none"]
  /\ dlErr = [n \in PartNames |-> "none"]
  /\ verified = [n \in PartNames |-> FALSE]
  /\ Errors = NoErrors
  /\ fetched = <<>>
  /\ WriteLock = "free"

Init ==
  /\ pcMain = "fetchMeta"
  /\ run = 1
  /\ pkg = NoPkg
  /\ manifest = [exists |-> TRUE, body |-> OldManifest]
  /\ pkgDir = FALSE
  /\ files \in [PartPaths -> PriorEntries]
  /\ TaskInit
  /\ ret = NoRet
  /\ prev = [pkg |-> NoPkg, err |-> "none", paths |-> <<>>]

taskVars == <<pc, stage, partFile, src, okSrc, discarded, failed, result, dlErr, verified,
              Errors, fetched, WriteLock>>

\* PkgFetch returns (nil, err) before the fan-out
ReturnErr(e) ==
  /\ ret' = [err |-> e, errors |-> NoErrors, paths |-> <<>>]
  /\ pcMain' = "returned"

\* ------------------------------------------------------------- PkgFetch
\* fetchPkgMeta, lines 29-60, and PkgFetch's lines 257-260
fetchPkgMeta ==
  /\ pcMain = "fetchMeta"
  /\ \E resp \in MetaResponses, writeErr \in BOOLEAN :
       IF resp.err \/ resp.status # StatusOK \/ ~resp.decodes
         THEN /\ ReturnErr("ManifestFetchError")
              /\ UNCHANGED <<pkg, manifest>>
         ELSE IF writeErr
           THEN /\ ReturnErr("ManifestWriteError")
                /\ UNCHANGED <<pkg, manifest>>
           ELSE /\ manifest' = writeFile(manifest,
                                         [decodes |-> resp.decodes, pkg |-> resp.pkg])
                /\ pkg' = resp.pkg
                /\ pcMain' = "precheck"
                /\ UNCHANGED ret
  /\ UNCHANGED <<run, pkgDir, files, taskVars, prev>>

\* PkgFetch's call of precheckPkgParts, lines 263-265
Precheck ==
  /\ pcMain = "precheck"
  /\ IF precheckPkgParts(pkg)
       THEN pcMain' = "mkdir" /\ UNCHANGED ret
       ELSE ReturnErr("ManifestIntegrityError")
  /\ UNCHANGED <<run, pkg, manifest, pkgDir, files, taskVars, prev>>

\* os.MkdirAll(pkgDir, 0700), lines 268-271
MkdirAll ==
  /\ pcMain = "mkdir"
  /\ \E mkdirErr \in BOOLEAN :
       IF mkdirErr
         THEN ReturnErr("MkdirError") /\ UNCHANGED pkgDir
         ELSE pkgDir' = TRUE /\ pcMain' = "fanout" /\ UNCHANGED ret
  /\ UNCHANGED <<run, pkg, manifest, files, taskVars, prev>>

\* the loop of fetchAndVerify, lines 218-241: one goroutine per declared part
FanOut ==
  /\ pcMain = "fanout"
  /\ pc' = [n \in PartNames |-> IF n \in pkg.Parts THEN "open" ELSE "idle"]
  /\ pcMain' = "wait"
  /\ UNCHANGED <<run, pkg, manifest, pkgDir, files, stage, partFile, src, okSrc,
                 discarded, failed, result, dlErr, verified, Errors, fetched, WriteLock,
                 ret, prev>>

\* group.Wait() and the result, lines 243-249, returned by PkgFetch, lines 274-282
Join ==
  /\ pcMain = "wait"
  /\ allJoined(pc, pkg.Parts)
  /\ ret' = fetchAndVerifyResult(Errors, fetched)
  /\ pcMain' = "returned"
  /\ UNCHANGED <<run, pkg, manifest, pkgDir, files, taskVars, prev>>

\* ------------------------------------------------- one goroutine per part
\* fetchPkgPart returns err to the goroutine, which hands it to addResult
\* (line 232)
Return_Continue(n, err) ==
  IF err = "nil" /\ src[n] + 1 < NumSources
    THEN UNCHANGED <<result, dlErr, pc>>
    ELSE /\ result' = [result EXCEPT ![n] = err]
         /\ dlErr' = [dlErr EXCEPT ![n] = err]
         /\ pc' = [pc EXCEPT ![n] = "add"]

Return(n, err) ==
  /\ result' = [result EXCEPT ![n] = err]
  /\ dlErr' = [dlErr EXCEPT ![n] = err]
  /\ pc' = [pc EXCEPT ![n] = "add"]

\* fetchPkgPart up to its loop, lines 114-142
TryOpen(n) ==
  /\ pc[n] = "open"
  /\ \E openErr \in OpenErrs :
       LET path == partPath(n)
           entry == files[path]
       IN  IF openErr # "nil" /\ IsExist(openErr)
             THEN IF Size(entry) = ExpectedBytes
                    THEN /\ Return(n, "nil")
                         /\ UNCHANGED <<files, partFile>>
                    ELSE /\ files' = [files EXCEPT ![path] = File(<<>>)]
                         /\ partFile' = [partFile EXCEPT ![n] = "open"]
                         /\ pc' = [pc EXCEPT ![n] = "get"]
                         /\ UNCHANGED <<result, dlErr>>
             ELSE /\ IF openErr = "nil"
                       THEN /\ files' = [files EXCEPT ![path] = tryOpen(entry)]
                            /\ partFile' = [partFile EXCEPT ![n] = "open"]
                       ELSE UNCHANGED <<files, partFile>>
                  /\ pc' = [pc EXCEPT ![n] = "get"]
                  /\ UNCHANGED <<result, dlErr>>
  /\ UNCHANGED <<pcMain, run, pkg, manifest, pkgDir, stage, src, okSrc,
                 discarded, failed, verified, Errors, fetched, WriteLock, ret, prev>>

\* a loop that ends without an error when no source is left
NextSource_Silent(n, k) ==
  IF k = NumSources
    THEN Return(n, "nil")
    ELSE UNCHANGED <<result, dlErr, pc>>

\* the end of an iteration of the loop without a return: the next source, or
\* line 176 after the last one
NextSource(n, k) ==
  IF k = NumSources
    THEN Return(n, "DownloadExhausted")
    ELSE UNCHANGED <<result, dlErr, pc>>

\* one iteration of fetchPkgPart's loop over the sources, lines 145-176
Get(n) ==
  /\ pc[n] = "get"
  /\ \E resp \in PartResponses, removeErr \in BOOLEAN, reopenErr \in OpenErrs :
       LET path == partPath(n)
           k == src[n] + 1
           \* the file after io.Copy has written resp.copied bytes of the body
           written == File(writeAt(files[path].data, Rep(k, resp.copied)))
           \* the file after tryRemove, whose error line 160 ignores
           removed == IF removeErr THEN written ELSE NoFile
       IN  /\ src' = [src EXCEPT ![n] = k]
           /\ IF resp.err \/ resp.status # StatusOK
                THEN \* line 148: logged, the file is not touched
                     /\ failed' = [failed EXCEPT ![n] = @ + 1]
                     /\ NextSource(n, k)
                     /\ UNCHANGED <<files, partFile, okSrc, discarded>>
                ELSE IF partFile[n] = "nil"
                THEN \* io.Copy into a nil *os.File fails, line 153
                     /\ Return(n, "CopyError")
                     /\ UNCHANGED <<files, partFile, okSrc, discarded, failed>>
                ELSE IF resp.copied < resp.len
                THEN \* io.Copy fails after writing part of the body, line 153
                     /\ files' = [files EXCEPT ![path] = written]
                     /\ Return(n, "CopyError")
                     /\ UNCHANGED <<partFile, okSrc, discarded, failed>>
                ELSE IF resp.len # ExpectedBytes
                THEN \* lines 156-167: remove the file, open it again
                     /\ discarded' = [discarded EXCEPT ![n] = TRUE]
                     /\ UNCHANGED <<okSrc, failed>>
                     /\ IF reopenErr = "nil"
                          THEN /\ files' = [files EXCEPT ![path] = tryOpen(removed)]
                               /\ NextSource(n, k)
                               /\ UNCHANGED partFile
                          ELSE /\ files' = [files EXCEPT ![path] = removed]
                               /\ partFile' = [partFile EXCEPT ![n] = "nil"]
                               /\ Return(n, "OpenError")
                ELSE \* lines 168-170: the byte count is the expected one
                     /\ files' = [files EXCEPT ![path] = written]
                     /\ okSrc' = [okSrc EXCEPT ![n] = k]
                     /\ Return(n, "nil")
                     /\ UNCHANGED <<partFile, discarded, failed>>
  /\ UNCHANGED <<pcMain, run, pkg, manifest, pkgDir, stage, verified,
                 Errors, fetched, WriteLock, ret, prev>>

\* addResult, lines 196-213, entered with the lock taken (line 197)
AddResultLock(n) ==
  /\ pc[n] = "add"
  /\ WriteLock = "free"
  /\ WriteLock' = n
  /\ \E absErr \in AbsErrs :
       /\ Errors' = addResultErrors(Errors, n, result[n], partPath(n), absErr)
       /\ fetched' = addResultFetched(fetched, result[n], partPath(n), absErr)
  /\ pc' = [pc EXCEPT ![n] = "unlock"]
  /\ UNCHANGED <<pcMain, run, pkg, manifest, pkgDir, files, stage, partFile,
                 src, okSrc, discarded, failed, result, dlErr, verified, ret, prev>>

\* addResult's deferred Unlock, line 198; after the second addResult the
\* goroutine ends (group.Done, line 224)
AddResultUnlock(n) ==
  /\ pc[n] = "unlock"
  /\ WriteLock = n
  /\ WriteLock' = "free"
  /\ pc' = [pc EXCEPT ![n] = IF stage[n] = "fetch" THEN "check" ELSE "done"]
  /\ UNCHANGED <<pcMain, run, pkg, manifest, pkgDir, files, stage, partFile,
                 src, okSrc, discarded, failed, result, dlErr, verified, Errors, fetched,
                 ret, prev>>

\* what len(fetchErrs.Errors) can yield at line 235, read without the lock: the
\* count, or the count without the key a sibling is inserting under the lock
RacyLen(n) ==
  LET cur == LenErrors(Errors)
  IN  IF WriteLock \notin {"free", n} /\ stage[WriteLock] = "fetch"
        THEN {cur - 1, cur}
        ELSE {cur}

\* lines 235-238: verify if the error map is seen empty, else end (line 224)
CheckErrs(n) ==
  /\ pc[n] = "check"
  /\ \E l \in RacyLen(n) :
       IF l = 0
         THEN LET path == partPath(n)
                  v == verifyPkgPart(path, files[path])
              IN  /\ files' = [files EXCEPT ![path] = v.entry]
                  /\ result' = [result EXCEPT ![n] = v.err]
                  /\ verified' = [verified EXCEPT ![n] = TRUE]
                  /\ stage' = [stage EXCEPT ![n] = "verify"]
                  /\ pc' = [pc EXCEPT ![n] = "add"]
         ELSE /\ pc' = [pc EXCEPT ![n] = "done"]
              /\ UNCHANGED <<files, result, verified, stage>>
  /\ UNCHANGED <<pcMain, run, pkg, manifest, pkgDir, partFile, src, okSrc,
                 discarded, failed, dlErr, Errors, fetched, WriteLock, ret, prev>>

\* the run left every declared part fully fetched on disk: every download
\* succeeded and every part file has the expected size
AllDownloaded ==
  /\ pkg.Parts # {}
  /\ \A n \in pkg.Parts :
       dlErr[n] = "nil" /\ Size(files[partPath(n)]) = ExpectedBytes

\* the caller invokes PkgFetch again after a run that left every part fully
\* fetched; nothing but the file system outlives a call
Reinvoke ==
  /\ pcMain = "returned"
  /\ run < MaxRuns
  /\ AllDownloaded
  /\ run' = run + 1
  /\ prev' = [pkg |-> pkg, err |-> ret.err, paths |-> ret.paths]
  /\ pcMain' = "fetchMeta"
  /\ pkg' = NoPkg
  /\ ret' = NoRet
  /\ pc' = [n \in PartNames |-> "idle"]
  /\ stage' = [n \in PartNames |-> "fetch"]
  /\ partFile' = [n \in PartNames |-> "nil"]
  /\ src' = [n \in PartNames |-> 0]
  /\ okSrc' = [n \in PartNames |-> 0]
  /\ discarded' = [n \in PartNames |-> FALSE]
  /\ failed' = [n \in PartNames |-> 0]
  /\ result' = [n \in PartNames |-> "none"]
  /\ dlErr' = [n \in PartNames |-> "none"]
  /\ verified' = [n \in PartNames |-> FALSE]
  /\ Errors' = NoErrors
  /\ fetched' = <<>>
  /\ WriteLock' = "free"
  /\ UNCHANGED <<manifest, pkgDir, files>>

Task(n) ==
  \/ TryOpen(n)
  \/ Get(n)
  \/ AddResultLock(n)
  \/ AddResultUnlock(n)
  \/ CheckErrs(n)

Program ==
  \/ fetchPkgMeta
  \/ Precheck
  \/ MkdirAll
  \/ FanOut
  \/ Join
  \/ \E n \in PartNames : Task(n)

Next == Program \/ Reinvoke

Spec == Init /\ [][Next]_vars

\* the Go scheduler runs every runnable goroutine
FairSpec == Spec /\ WF_vars(Program)

\* ------------------------------------------- verifyPkgPart called directly
\* the part files verifyPkgPart can be handed: what an earlier run left, or
\* the body of a source
VerifiableEntries ==
  PriorEntries \cup {File(Rep(k, ExpectedBytes)) : k \in 1..NumSources}

VerifyInit ==
  /\ pcMain = "verifyPkgPart"
  /\ run = 1
  /\ pkg = [Parts |-> PartNames, Images |-> PartNames]
  /\ manifest = [exists |-> TRUE, body |-> OldManifest]
  /\ pkgDir = TRUE
  /\ files \in [PartPaths -> VerifiableEntries]
  /\ TaskInit
  /\ ret = NoRet
  /\ prev = [pkg |-> NoPkg, err |-> "none", paths |-> <<>>]

\* a call verifyPkgPart(userKeysDir, partPath, signatures), lines 180-190
CallVerify(n) ==
  /\ ~verified[n]
  /\ LET path == partPath(n)
         v == verifyPkgPart(path, files[path])
     IN  /\ files' = [files EXCEPT ![path] = v.entry]
         /\ result' = [result EXCEPT ![n] = v.err]
  /\ verified' = [verified EXCEPT ![n] = TRUE]
  /\ UNCHANGED <<pcMain, run, pkg, manifest, pkgDir, pc, stage, partFile, src,
                 okSrc, discarded, failed, dlErr, Errors, fetched, WriteLock, ret, prev>>

VerifyNext == \E n \in PartNames : CallVerify(n)

VerifySpec == VerifyInit /\ [][VerifyNext]_vars

\* ------------------------------------------------------------------ claims
\* PkgFetch has returned the result of fetchAndVerify
Joined == pcMain = "returned" /\ ret.err \in {"nil", "Error fetching parts"}

InPaths(path, list) == \E i \in 1..Len(list) : list[i] = path

\* C1: when every declared part (at least one) was downloaded and no
\* verification failed, PkgFetch returns a nil error and a list holding the
\* path of every declared part.
C1_CompleteSuccess ==
  ( /\ Joined
    /\ pkg.Parts # {}
    /\ \A n \in pkg.Parts : dlErr[n] = "nil" /\ Errors[n] \notin {"VerificationError", "AbsErr"} )
  => ( /\ ret.err = "nil"
       /\ \A n \in pkg.Parts : InPaths(partPath(n), ret.paths) )

\* C2: after the join the surfaced error map has a key for a part exactly if
\* the part's download or verification failed (the parts whose path could not
\* be resolved aside).
C2_ErrorMapExact ==
  Joined =>
    \A n \in PartNames :
      ret.errors[n] # "AbsErr" =>
        ( ret.errors[n] # "absent"
          <=> (n \in pkg.Parts /\ (dlErr[n] # "nil" \/ result[n] = "VerificationError")) )

\* C3: after the join the returned error carries, for every part whose
\* download failed, that part's name with its error.
C3_AllFailuresReported ==
  Joined =>
    \A n \in pkg.Parts :
      dlErr[n] # "nil" => (ret.err # "nil" /\ ret.errors[n] = dlErr[n])

\* C3's case: two parts failed their download and both are in the error
C3_Witness ==
  /\ Joined
  /\ \E n, m \in pkg.Parts :
       /\ n # m
       /\ dlErr[n] = "DownloadExhausted" /\ ret.errors[n] = "DownloadExhausted"
       /\ dlErr[m] = "CopyError" /\ ret.errors[m] = "CopyError"

\* C4: a call of fetchPkgPart that finds a file of the expected size at the
\* target path returns success at once: no source is requested and the file
\* is left as it was.
C4_ResumeSkip ==
  [][\A n \in PartNames :
       ( /\ pc[n] = "open"
         /\ pc'[n] # "open"
         /\ files[partPath(n)].exists
         /\ Size(files[partPath(n)]) = ExpectedBytes )
       => ( /\ pc'[n] = "add"
            /\ result'[n] = "nil"
            /\ src'[n] = 0
            /\ files'[partPath(n)] = files[partPath(n)] )]_vars

\* the manifest was fetched with status 200 and decoded, its file was written,
\* and every declared part has its metadata
ManifestReady ==
  /\ manifest = [exists |-> TRUE, body |-> [decodes |-> TRUE, pkg |-> pkg]]
  /\ pkg.Parts \subseteq pkg.Images

NoPartTraffic == \A n \in PartNames : pc[n] = "idle" /\ src[n] = 0

\* C5: a part task is started or a part source requested only after the
\* manifest was fetched, decoded and written and the precheck passed; when one
\* of these fails PkgFetch returns an error and no part source was requested.
C5_FatalErrorsPrecedeParts ==
  /\ ~NoPartTraffic => ManifestReady
  /\ (pcMain = "returned" /\ ~ManifestReady) =>
       (ret.err \notin {"nil", "none"} /\ NoPartTraffic)

\* C5's case: the precheck failed on a manifest that declares a part without
\* metadata, and PkgFetch returned with no part source requested
C5_Witness ==
  /\ pcMain = "returned"
  /\ ret.err = "ManifestIntegrityError"
  /\ pkg.Parts # {}
  /\ ~(pkg.Parts \subseteq pkg.Images)
  /\ manifest.body.pkg = pkg
  /\ NoPartTraffic

\* fetchPkgPart has returned for part n
Fetched(n) == dlErr[n] # "none"

\* C6: when fetchPkgPart succeeds with source k after the sources before it
\* failed with a request error or a status other than 200, the file holds
\* exactly the expectedBytes bytes of the body of source k, whatever was at the
\* target path before.
C6_FallbackContent ==
  \A n \in PartNames :
    (Fetched(n) /\ dlErr[n] = "nil" /\ ~discarded[n]) =>
      files[partPath(n)] = File(Rep(okSrc[n], ExpectedBytes))

\* C7: when every source of a part failed with a request error or a status
\* other than 200, the part's file is absent or empty once the task is done,
\* if it was not of the expected size before (no source wrote to the file, so
\* it has the size it had before).
C7_ExhaustedFileEmpty ==
  \A n \in PartNames :
    ( /\ pc[n] = "done"
      /\ dlErr[n] = "DownloadExhausted"
      /\ ~discarded[n]
      /\ Size(files[partPath(n)]) # ExpectedBytes )
    => (~files[partPath(n)].exists \/ files[partPath(n)].data = <<>>)

\* C8: when the verification of a part has failed, the part's file is deleted.
C8_VerificationFailureDeletes ==
  \A n \in PartNames :
    (verified[n] /\ result[n] = "VerificationError") => ~files[partPath(n)].exists

\* C9: a second invocation with the same manifest, after a run that left every
\* part fully fetched, requests no part source and returns the list of paths
\* the first one returned.
C9_Idempotent ==
  (run > 1 /\ pkg = prev.pkg) =>
    /\ \A n \in PartNames : src[n] = 0
    /\ Joined => (ret.err = prev.err /\ ret.paths = prev.paths)

\* C10: one task is launched per declared part; a task that has not finished
\* its download can take its next download step whatever its siblings have
\* recorded; the result of the fan-out is computed only when every declared
\* part's task is done and has made its download attempt; and a fan-out that
\* has started ends with PkgFetch returning.
C10_AllAttemptedAndJoined ==
  /\ [](pcMain = "wait" => \A n \in PartNames : (n \in pkg.Parts <=> pc[n] # "idle"))
  /\ [](\A n \in PartNames : pc[n] \in {"open", "get"} => ENABLED (TryOpen(n) \/ Get(n)))
  /\ [](Joined => \A n \in pkg.Parts : pc[n] = "done" /\ Fetched(n) /\ src[n] >= 1)
  /\ (pcMain = "wait" ~> pcMain = "returned")

\* C10's case: the result was computed after the tasks of a part whose sources
\* all failed and of a sibling that was downloaded were both done
C10_Witness ==
  /\ Joined
  /\ \E n, m \in pkg.Parts :
       /\ dlErr[n] = "DownloadExhausted"
       /\ dlErr[m] = "nil" /\ okSrc[m] >= 1
       /\ pc[n] = "done" /\ pc[m] = "done"

\* a step in which part n's goroutine reads len(fetchErrs.Errors), line 235
ReadsLen(n) == pc[n] = "check" /\ pc'[n] # "check"

\* a step in which part n's goroutine writes fetchErrs.Errors, lines 204, 212
WritesErrors(n) == pc[n] = "add" /\ pc'[n] # "add"

\* C11: while part tasks run, every write of the error map is made by a task
\* that holds the lock, and no task reads the map or its size while a sibling
\* holds the lock to write it (as it would be if every read were made under
\* the lock).
C11_MapAccessUnderLock ==
  [][\A n \in PartNames :
       /\ WritesErrors(n) => WriteLock' = n
       /\ ReadsLen(n) => WriteLock \in {"free", n}]_vars

\* C12: when every source of a part has failed with a request error or a
\* status other than 200, fetchPkgPart has returned the download-exhausted
\* error, addResult records it under the part's name, the siblings can go on
\* with their downloads, and the result is computed with that entry after
\* every sibling has finished its own download.
C12_ExhaustionIsLocal ==
  \A n \in PartNames :
    failed[n] = NumSources =>
      /\ dlErr[n] = "DownloadExhausted"
      /\ pc[n] \in {"unlock", "check", "done"} => Errors[n] = "DownloadExhausted"
      /\ \A m \in pkg.Parts \ {n} :
           pc[m] \in {"open", "get"} => ENABLED (TryOpen(m) \/ Get(m))
      /\ Joined =>
           /\ ret.errors[n] = "DownloadExhausted"
           /\ \A m \in pkg.Parts : Fetched(m) /\ pc[m] = "done"

\* C12's case: every source of one part failed, its error is in the returned
\* map, and a sibling went on to download its part from its last source
C12_Witness ==
  /\ Joined
  /\ \E n, m \in pkg.Parts :
       /\ n # m
       /\ failed[n] = NumSources
       /\ ret.errors[n] = "DownloadExhausted"
       /\ dlErr[m] = "nil" /\ okSrc[m] = NumSources

\* C13: a task whose download succeeded and which makes its check when no
\* error of any part is in the map calls verifyPkgPart for its part.
C13_VerifiedWhenNothingFailed ==
  [][\A n \in PartNames :
       ( /\ ReadsLen(n)
         /\ dlErr[n] = "nil"
         /\ \A m \in PartNames : Errors[m] \in {"absent", "nil"} )
       => verified'[n]]_vars

\* C14: when fetchPkgPart has returned an error for a part whose file it could
\* open, every source of the part has been requested.
C14_FailsOnlyAfterAllSources ==
  \A n \in PartNames :
    (Fetched(n) /\ dlErr[n] # "nil" /\ partFile[n] = "open") => src[n] = NumSources

\* C15: after a body of the wrong size the file is empty again when the next
\* source is requested, and when a later source then delivers exactly
\* expectedBytes bytes the file holds that body and nothing else.
C15_WrongSizeDiscarded ==
  \A n \in PartNames :
    discarded[n] =>
      /\ pc[n] = "get" => files[partPath(n)] = File(<<>>)
      /\ (Fetched(n) /\ dlErr[n] = "nil") =>
           files[partPath(n)] = File(Rep(okSrc[n], ExpectedBytes))

\* a step of one invocation in which part n's next source is requested
Requests(n) == run' = run /\ src'[n] # src[n]

\* C16: within one invocation the sources of a part are requested in declaration
\* order, each at most once (the index of the last requested source only ever
\* grows by one, up to the number of sources); a source that fails with a
\* request error or a non-200 status leaves the part file as it was; and no
\* source is requested once one has delivered exactly expectedBytes bytes.
C16_SingleOrderedPass ==
  [][\A n \in PartNames :
       /\ Requests(n) =>
            /\ src'[n] = src[n] + 1
            /\ src'[n] <= NumSources
            /\ okSrc[n] = 0
       /\ run' = run => src'[n] >= src[n]
       /\ (Requests(n) /\ failed'[n] # failed[n]) =>
            files'[partPath(n)] = files[partPath(n)]]_vars

C16_Witness ==
  \E n \in pkg.Parts :
    /\ pc[n] = "done"
    /\ src[n] = NumSources
    /\ failed[n] = NumSources - 1
    /\ okSrc[n] = NumSources
    /\ files[partPath(n)].data = Rep(NumSources, ExpectedBytes)

\* C17: every part file the program creates or writes lies inside the package
\* subdirectory, at <destinationDir>/<pkg.ID>/<part name>, never directly in
\* destinationDir.
C17_PartsInsidePkgDir ==
  [][\A p \in DOMAIN files :
       files'[p] # files[p] =>
         /\ pkgDir
         /\ \E n \in PartNames : p = pkgDirPath \o <<n>>]_vars

\* C18: a part whose own download failed is never verified, and the download
\* error recorded for it is never replaced: once fetchPkgPart has returned an
\* error for part n, no step verifies n, the step that records n's result
\* stores that error under n, and the entry keeps that value afterwards.
C18_NoVerifyAfterFailedDownload ==
  [][\A n \in PartNames :
       (Fetched(n) /\ dlErr[n] # "nil" /\ run' = run) =>
         /\ ~verified'[n]
         /\ stage'[n] = "fetch"
         /\ WritesErrors(n) => Errors'[n] = dlErr[n]
         /\ Errors[n] # "absent" => Errors'[n] = dlErr[n]
         /\ ReadsLen(n) => (pc'[n] = "done" /\ files' = files)]_vars

C18_Witness ==
  /\ Joined
  /\ \E n, m \in pkg.Parts :
       /\ dlErr[n] = "CopyError"
       /\ ~verified[n] /\ stage[n] = "fetch"
       /\ ret.errors[n] = "CopyError"
       /\ dlErr[m] = "nil" /\ ~verified[m]

====
